---- MODULE Spec2Model ----
(***************************************************************************)
(* Connection establishment and authentication of a PostgreSQL             *)
(* wire-protocol client (package base, conn.go): Connect, startTLS,        *)
(* rxAuthenticationX, txPasswordMessage, hexMD5, ReceiveMessage and        *)
(* ParameterStatus.                                                        *)
(*                                                                         *)
(* Go strings that are hashed or sent as credentials are modelled as       *)
(* sequences of bytes (0..255); protocol message fields that are only      *)
(* copied are modelled as TLA+ strings.                                    *)
(***************************************************************************)
EXTENDS Integers, Sequences, FiniteSets, TLC

(***************************************************************************)
(* crypto/md5 and encoding/hex, as used by hexMD5.  A 32-bit word is a     *)
(* pair <<high 16 bits, low 16 bits>> so that every intermediate value     *)
(* stays inside the model checker's integers while the arithmetic is still *)
(* modulo 2^32.                                                            *)
(***************************************************************************)
Bit(n, i) == (n \div (2 ^ i)) % 2

\* one bit of "and", "or" or "xor"
BitOp(op, x, y) ==
    CASE op = "and" -> x * y
      [] op = "or" -> x + y - x * y
      [] op = "xor" -> (x + y) % 2

NibbleOp(op, a, b) ==
    BitOp(op, Bit(a, 0), Bit(b, 0)) + 2 * BitOp(op, Bit(a, 1), Bit(b, 1))
        + 4 * BitOp(op, Bit(a, 2), Bit(b, 2)) + 8 * BitOp(op, Bit(a, 3), Bit(b, 3))

RECURSIVE NibbleRow(_, _, _)
NibbleRow(op, a, b) ==
    IF b = 16 THEN <<>>
    ELSE <<NibbleOp(op, a, b)>> \o NibbleRow(op, a, b + 1)

RECURSIVE NibbleTable(_, _)
\* the 256 values of a bitwise operation on two 4-bit numbers a and b,
\* at index 16 * a + b + 1
NibbleTable(op, a) ==
    IF a = 16 THEN <<>>
    ELSE NibbleRow(op, a, 0) \o NibbleTable(op, a + 1)

AndTab == NibbleTable("and", 0)

OrTab == NibbleTable("or", 0)

XorTab == NibbleTable("xor", 0)

\* a bitwise operation on two 16-bit numbers, four bits at a time
Half(tab, x, y) ==
    tab[16 * (x \div 4096) + (y \div 4096) + 1] * 4096
        + tab[16 * ((x \div 256) % 16) + ((y \div 256) % 16) + 1] * 256
        + tab[16 * ((x \div 16) % 16) + ((y \div 16) % 16) + 1] * 16
        + tab[16 * (x % 16) + (y % 16) + 1]

WAnd(x, y) == <<Half(AndTab, x[1], y[1]), Half(AndTab, x[2], y[2])>>

WOr(x, y) == <<Half(OrTab, x[1], y[1]), Half(OrTab, x[2], y[2])>>

WXor(x, y) == <<Half(XorTab, x[1], y[1]), Half(XorTab, x[2], y[2])>>

WNot(x) == <<65535 - x[1], 65535 - x[2]>>

\* x + y modulo 2^32
WAdd(x, y) ==
    LET l == x[2] + y[2]
        h == x[1] + y[1] + (l \div 65536)
    IN  <<h % 65536, l % 65536>>

\* rotate the 32-bit word x left by s bits, 0 <= s < 32
RotL(x, s) ==
    LET y == IF s >= 16 THEN <<x[2], x[1]>> ELSE x
        r == s % 16
    IN  IF r = 0 THEN y
        ELSE <<((y[1] * (2 ^ r)) % 65536) + (y[2] \div (2 ^ (16 - r))),
               ((y[2] * (2 ^ r)) % 65536) + (y[1] \div (2 ^ (16 - r)))>>

\* the per-round shift amounts
MD5Shift ==
    <<7, 12, 17, 22, 7, 12, 17, 22, 7, 12, 17, 22, 7, 12, 17, 22,
      5, 9, 14, 20, 5, 9, 14, 20, 5, 9, 14, 20, 5, 9, 14, 20,
      4, 11, 16, 23, 4, 11, 16, 23, 4, 11, 16, 23, 4, 11, 16, 23,
      6, 10, 15, 21, 6, 10, 15, 21, 6, 10, 15, 21, 6, 10, 15, 21>>

\* floor(2^32 * abs(sin(i))) for i = 1..64
MD5Table ==
    <<
    <<55146, 42104>>, <<59591, 46934>>, <<9248, 28891>>, <<49597, 52974>>,
    <<62844, 4015>>, <<18311, 50730>>, <<43056, 17939>>, <<64838, 38145>>,
    <<27008, 39128>>, <<35652, 63407>>, <<65535, 23473>>, <<35164, 55230>>,
    <<27536, 4386>>, <<64920, 29075>>, <<42617, 17294>>, <<18868, 2081>>,
    <<63006, 9570>>, <<49216, 45888>>, <<9822, 23121>>, <<59830, 51114>>,
    <<54831, 4189>>, <<580, 5203>>, <<55457, 59009>>, <<59347, 64456>>,
    <<8673, 52710>>, <<49975, 2006>>, <<62677, 3463>>, <<17754, 5357>>,
    <<43491, 59653>>, <<64751, 41976>>, <<26479, 729>>, <<36138, 19594>>,
    <<65530, 14658>>, <<34673, 63105>>, <<28061, 24866>>, <<64997, 14348>>,
    <<42174, 59972>>, <<19422, 53161>>, <<63163, 19296>>, <<48831, 48240>>,
    <<10395, 32454>>, <<60065, 10234>>, <<54511, 12421>>, <<1160, 7429>>,
    <<55764, 53305>>, <<59099, 39397>>, <<8098, 31992>>, <<50348, 22117>>,
    <<62505, 8772>>, <<17194, 65431>>, <<43924, 9127>>, <<64659, 41017>>,
    <<25947, 22979>>, <<36620, 52370>>, <<65519, 62589>>, <<34180, 24017>>,
    <<28584, 32335>>, <<65068, 59104>>, <<41729, 17172>>, <<19976, 4513>>,
    <<63315, 32386>>, <<48442, 62005>>, <<10967, 53947>>, <<60294, 54161>>
    >>

\* the initial chaining value 0x67452301, 0xefcdab89, 0x98badcfe, 0x10325476
MD5Init == <<<<26437, 8961>>, <<61389, 43913>>, <<39098, 56574>>, <<4146, 21622>>>>

Zeros(n) == [i \in 1..n |-> 0]

\* the message followed by 0x80, zero bytes up to 56 modulo 64, and the
\* length in bits as 8 little-endian bytes
MD5Pad(msg) ==
    LET n    == Len(msg)
        bits == 8 * n
    IN  msg \o <<128>> \o Zeros((119 - (n % 64)) % 64)
            \o <<bits % 256, (bits \div 256) % 256, (bits \div 65536) % 256,
                 (bits \div 16777216) % 256, 0, 0, 0, 0>>

\* the g-th (0-based) little-endian 32-bit word of the 64-byte block
\* starting at offset off of the padded message p
MD5Word(p, off, g) ==
    LET k == off + 4 * g
    IN  <<p[k + 3] + 256 * p[k + 4], p[k + 1] + 256 * p[k + 2]>>

MD5F(i, b, c, d) ==
    IF i < 16 THEN WOr(WAnd(b, c), WAnd(WNot(b), d))
    ELSE IF i < 32 THEN WOr(WAnd(d, b), WAnd(WNot(d), c))
    ELSE IF i < 48 THEN WXor(WXor(b, c), d)
    ELSE WXor(c, WOr(b, WNot(d)))

MD5G(i) ==
    IF i < 16 THEN i
    ELSE IF i < 32 THEN (5 * i + 1) % 16
    ELSE IF i < 48 THEN (3 * i + 5) % 16
    ELSE (7 * i) % 16

\* round i (0-based) of the compression function on state st = <<a, b, c, d>>
MD5Round(i, st, p, off) ==
    LET f == WAdd(WAdd(WAdd(MD5F(i, st[2], st[3], st[4]), st[1]),
                       MD5Table[i + 1]),
                  MD5Word(p, off, MD5G(i)))
    IN  <<st[4], WAdd(st[2], RotL(f, MD5Shift[i + 1])), st[2], st[3]>>

RECURSIVE MD5Group(_, _, _, _, _)
\* the test only makes TLC compute st before it goes on
MD5GroupFrom(i, n, st, p, off) ==
    IF st[1][1] >= 0 THEN MD5Group(i, n, st, p, off) ELSE st

\* rounds i..i+n-1, with st the state after round i - 1
MD5Group(i, n, st, p, off) ==
    IF n = 0 THEN st
    ELSE MD5GroupFrom(i + 1, n - 1, MD5Round(i, st, p, off), p, off)

RECURSIVE MD5Rounds(_, _, _, _)
MD5RoundsFrom(i, st, p, off) ==
    IF st[1][1] >= 0 THEN MD5Rounds(i, st, p, off) ELSE st

\* rounds i..63, eight at a time, with st the state after round i - 1
MD5Rounds(i, st, p, off) ==
    IF i = 64 THEN st
    ELSE MD5RoundsFrom(i + 8, MD5Group(i, 8, st, p, off), p, off)

AddState(h, st) ==
    <<WAdd(h[1], st[1]), WAdd(h[2], st[2]), WAdd(h[3], st[3]), WAdd(h[4], st[4])>>

RECURSIVE MD5Blocks(_, _, _)
\* the chaining value after the 64-byte blocks of p from offset off on
MD5Blocks(h, p, off) ==
    IF off >= Len(p) THEN h
    ELSE MD5Blocks(AddState(h, MD5Rounds(0, h, p, off)), p, off + 64)

WordBytes(w) == <<w[2] % 256, w[2] \div 256, w[1] % 256, w[1] \div 256>>

DigestBytes(h) ==
    WordBytes(h[1]) \o WordBytes(h[2]) \o WordBytes(h[3]) \o WordBytes(h[4])

\* md5.New(); io.WriteString(hash, s); hash.Sum(nil): the 16-byte digest
MD5Sum(s) == DigestBytes(MD5Blocks(MD5Init, MD5Pad(s), 0))

\* hex.EncodeToString: two lowercase hexadecimal digits per byte
HexDigit(n) == IF n < 10 THEN 48 + n ELSE 87 + n

RECURSIVE EncodeFrom(_, _)
EncodeFrom(bs, i) ==
    IF i > Len(bs) THEN <<>>
    ELSE <<HexDigit(bs[i] \div 16), HexDigit(bs[i] % 16)>> \o EncodeFrom(bs, i + 1)

EncodeToString(bs) == EncodeFrom(bs, 1)

\* func hexMD5, computed from its definition
hexMD5Compute(s) == EncodeToString(MD5Sum(s))

(***************************************************************************)
(* Bounds, and the values the environment and the caller may supply.       *)
(***************************************************************************)
\* the largest number of messages the codec delivers in one run
MaxMsgs == 3

\* byte strings
StrEmpty == <<>>

StrBob == <<98, 111, 98>>

StrOs == <<111, 115>>

StrPw == <<112, 119>>

StrDb == <<100, 98>>

StrApp == <<97, 112, 112>>

StrEve == <<101, 118, 101>>

StrOther == <<111, 116, 104, 101, 114>>

\* the name user.Current() reports
OsUserName == StrOs

\* Go maps are functions with a finite domain; the map with no key
EmptyMap == [k \in {} |-> StrEmpty]

\* map[string]string{k: v}
Map1(k, v) == [x \in {k} |-> v]

Map2(k1, v1, k2, v2) == [x \in {k1, k2} |-> IF x = k1 THEN v1 ELSE v2]

\* m[k] of a Go map: the zero value for a missing key
MapGet(m, k, zero) == IF k \in DOMAIN m THEN m[k] ELSE zero

\* m[k] = v
MapPut(m, k, v) == [x \in (DOMAIN m) \cup {k} |-> IF x = k THEN v ELSE m[x]]

\* host names and paths, as sequences of characters
HostTmp == <<"/", "t", "m", "p">>

HostTmpSlash == <<"/", "t", "m", "p", "/">>

HostParent == <<"/", "a", "/", ".", ".", "/", "t", "m", "p">>

HostDot == <<".">>

HostSocket ==
    <<"/", "t", "m", "p", "/", ".", "s", ".", "P", "G", "S", "Q", "L", ".", "6", "5", "4", "3">>

HostDb == <<"d", "b">>

HostMissing == <<"/", "n", "o">>

\* the paths os.Stat finds in the file system of the model
ExistingPaths == {HostTmp, HostTmpSlash, HostParent, HostDot, HostSocket}

\* the ConnConfig values Connect is called with
Configs ==
    { [Host |-> StrEmpty, User |-> StrEmpty, Password |-> StrPw, TLSConfig |-> "nil",
       Port |-> 0, Dial |-> "nil", Database |-> StrEmpty, RuntimeParams |-> EmptyMap],
      [Host |-> HostTmp, User |-> StrBob, Password |-> StrPw, TLSConfig |-> "tlsConfig",
       Port |-> 6543, Dial |-> "customDial", Database |-> StrDb,
       RuntimeParams |-> Map1("application_name", StrApp)],
      [Host |-> HostDb, User |-> StrBob, Password |-> StrEmpty, TLSConfig |-> "nil",
       Port |-> 0, Dial |-> "customDial", Database |-> StrDb,
       RuntimeParams |-> Map2("user", StrEve, "database", StrOther)],
      [Host |-> HostTmpSlash, User |-> StrEmpty, Password |-> StrEmpty,
       TLSConfig |-> "tlsConfig", Port |-> 6543, Dial |-> "nil", Database |-> StrEmpty,
       RuntimeParams |-> Map1("application_name", StrApp)],
      [Host |-> HostSocket, User |-> StrBob, Password |-> StrPw, TLSConfig |-> "nil",
       Port |-> 0, Dial |-> "nil", Database |-> StrEmpty,
       RuntimeParams |-> Map2("user", StrEve, "database", StrOther)],
      [Host |-> HostDot, User |-> StrEmpty, Password |-> StrPw, TLSConfig |-> "nil",
       Port |-> 0, Dial |-> "customDial", Database |-> StrDb, RuntimeParams |-> EmptyMap],
      [Host |-> HostParent, User |-> StrBob, Password |-> StrEmpty,
       TLSConfig |-> "tlsConfig", Port |-> 80, Dial |-> "nil", Database |-> StrEmpty,
       RuntimeParams |-> EmptyMap],
      [Host |-> HostMissing, User |-> StrBob, Password |-> StrPw, TLSConfig |-> "nil",
       Port |-> 65535, Dial |-> "customDial", Database |-> StrDb,
       RuntimeParams |-> EmptyMap] }

\* the zero ConnConfig
ZeroConfig ==
    [Host |-> StrEmpty, User |-> StrEmpty, Password |-> StrEmpty, TLSConfig |-> "nil", Port |-> 0,
     Dial |-> "nil", Database |-> StrEmpty, RuntimeParams |-> EmptyMap]

\* Go error values: the nil error, errors.New(text), and an error raised by
\* the operating system, the network or the codec
NoError == [type |-> "nil"]

ErrorsNew(text) == [type |-> "errorString", text |-> text]

EnvError(name) == [type |-> "env", text |-> name]

ErrTLSRefused == ErrorsNew("server refused TLS connection")

\* the errors a dial, read, write or decode may fail with
IOErrors == {EnvError("EPIPE"), EnvError("ETIMEDOUT")}

IOOutcomes == {NoError} \cup IOErrors

\* pgproto3 authentication types
AuthTypeOk == 0

AuthTypeCleartextPassword == 3

AuthTypeMD5Password == 5

\* authentication types rxAuthenticationX has no case for (2: Kerberos V5)
UnknownAuthTypes == {2}

\* pgproto3.ProtocolVersionNumber (3.0)
ProtocolVersionNumber == 196608

\* the TLS negotiation request []int32{8, 80877103} and the accept byte 'S'
SSLRequestLength == 8

SSLRequestCode == 80877103

ByteS == 83

\* the bytes a server may answer the request with: 'S', 'N', 's', 'E'
TLSResponses == {ByteS, 78, 115, 69}

\* transaction status bytes: 'I', 'T'
TxStatuses == {73, 84}

NoSalt == <<0, 0, 0, 0>>

Salts == {<<1, 2, 3, 4>>, <<255, 0, 10, 128>>}

\* a message with the fields of pgproto3.ErrorResponse (NoticeResponse
\* has the same underlying type)
ErrorFields(type, tag, n) ==
    [type |-> type,
     Severity |-> "ERROR" \o tag, Code |-> "28P01" \o tag, Message |-> "message" \o tag,
     Detail |-> "detail" \o tag, Hint |-> "hint" \o tag, Position |-> n + 1,
     InternalPosition |-> n + 2, InternalQuery |-> "internal query" \o tag,
     Where |-> "where" \o tag, SchemaName |-> "schema" \o tag,
     TableName |-> "table" \o tag, ColumnName |-> "column" \o tag,
     DataTypeName |-> "data type" \o tag, ConstraintName |-> "constraint" \o tag,
     File |-> "file" \o tag, Line |-> n + 3, Routine |-> "routine" \o tag]

\* the messages Frontend.Receive may decode
BackendKeyDataMsgs ==
    { [type |-> "BackendKeyData", ProcessID |-> 101, SecretKey |-> 202],
      [type |-> "BackendKeyData", ProcessID |-> 303, SecretKey |-> 404] }

AuthenticationMsgs ==
    { [type |-> "Authentication", Type |-> t, Salt |-> NoSalt] :
        t \in {AuthTypeOk, AuthTypeCleartextPassword} \cup UnknownAuthTypes }
    \cup { [type |-> "Authentication", Type |-> AuthTypeMD5Password, Salt |-> s] :
             s \in Salts }

ReadyForQueryMsgs ==
    { [type |-> "ReadyForQuery", TxStatus |-> t] : t \in TxStatuses }

ParameterStatusMsgs ==
    { [type |-> "ParameterStatus", Name |-> "server_version", Value |-> "9.6"],
      [type |-> "ParameterStatus", Name |-> "server_version", Value |-> "10"],
      [type |-> "ParameterStatus", Name |-> "client_encoding", Value |-> "UTF8"] }

ErrorResponseMsgs ==
    { ErrorFields("ErrorResponse", "-a", 10), ErrorFields("ErrorResponse", "-b", 20) }

OtherMsgs ==
    { ErrorFields("NoticeResponse", "-a", 10),
      [type |-> "CommandComplete", CommandTag |-> "SELECT 1"] }

Messages ==
    BackendKeyDataMsgs \cup AuthenticationMsgs \cup ReadyForQueryMsgs
        \cup ParameterStatusMsgs \cup ErrorResponseMsgs \cup OtherMsgs

\* what Frontend.Receive returns: a message and no error, or no message
\* and an error
NoMsg == [type |-> "nil"]

ReceiveResults ==
    { [msg |-> m, err |-> NoError] : m \in Messages }
    \cup { [msg |-> NoMsg, err |-> e] : e \in IOErrors }

\* what Frontend.Receive returns to the caller once the session is
\* established: status reports, notices and command completions, or an error
CallerReceiveResults ==
    { [msg |-> m, err |-> NoError] :
        m \in ReadyForQueryMsgs \cup ParameterStatusMsgs \cup OtherMsgs }
    \cup { [msg |-> NoMsg, err |-> e] : e \in IOErrors }

(***************************************************************************)
(* The functions of conn.go.                                               *)
(***************************************************************************)
\* os.Stat(name): nil when the path exists
Stat(name) == IF name \in ExistingPaths THEN NoError ELSE EnvError("ENOENT")

\* strings.Contains(s, substr)
Contains(s, substr) ==
    \E i \in 1..(Len(s) - Len(substr) + 1) : SubSeq(s, i, i + Len(substr) - 1) = substr

\* the elements of a path between its separators
RECURSIVE SplitFrom(_, _, _)
SplitFrom(s, i, cur) ==
    IF i > Len(s) THEN <<cur>>
    ELSE IF s[i] = "/" THEN <<cur>> \o SplitFrom(s, i + 1, <<>>)
    ELSE SplitFrom(s, i + 1, Append(cur, s[i]))

\* filepath.Clean, element by element: empty and "." elements are dropped,
\* ".." removes the element before it (at the root it is dropped, at the
\* start of a relative path it is kept)
RECURSIVE CleanElems(_, _, _, _)
CleanElems(elems, i, out, rooted) ==
    IF i > Len(elems) THEN out
    ELSE IF elems[i] = <<>> \/ elems[i] = <<".">>
    THEN CleanElems(elems, i + 1, out, rooted)
    ELSE IF elems[i] = <<".", ".">>
    THEN IF out # <<>> /\ out[Len(out)] # <<".", ".">>
         THEN CleanElems(elems, i + 1, SubSeq(out, 1, Len(out) - 1), rooted)
         ELSE IF rooted
         THEN CleanElems(elems, i + 1, out, rooted)
         ELSE CleanElems(elems, i + 1, Append(out, elems[i]), rooted)
    ELSE CleanElems(elems, i + 1, Append(out, elems[i]), rooted)

RECURSIVE JoinElems(_, _)
JoinElems(elems, i) ==
    IF i > Len(elems) THEN <<>>
    ELSE IF i = Len(elems) THEN elems[i]
    ELSE elems[i] \o <<"/">> \o JoinElems(elems, i + 1)

\* filepath.Clean(path)
Clean(path) ==
    LET rooted == path # <<>> /\ path[1] = "/"
        out == JoinElems(CleanElems(SplitFrom(path, 1, <<>>), 1, <<>>, rooted), 1)
        res == IF rooted THEN <<"/">> \o out ELSE out
    IN  IF res = <<>> THEN <<".">> ELSE res

\* filepath.Join(a, b): empty elements are ignored, the result is cleaned
Join(a, b) ==
    IF a # <<>> THEN Clean(a \o <<"/">> \o b)
    ELSE IF b # <<>> THEN Clean(b)
    ELSE <<>>

DecimalDigits == <<"0", "1", "2", "3", "4", "5", "6", "7", "8", "9">>

\* strconv.FormatInt(n, 10) and the verb %d, for n >= 0
RECURSIVE FormatInt(_)
FormatInt(n) ==
    IF n < 10 THEN <<DecimalDigits[n + 1]>>
    ELSE Append(FormatInt(n \div 10), DecimalDigits[(n % 10) + 1])

\* "/.s.PGSQL." and ".s.PGSQL."
SocketMarker == <<"/", ".", "s", ".", "P", "G", "S", "Q", "L", ".">>

SocketPrefix == Tail(SocketMarker)

\* NetworkAddress joining the marker to the host without cleaning the path
NetworkAddressUncleaned(c, staterr) ==
    IF staterr = NoError
    THEN [network |-> "unix",
          address |-> IF ~Contains(c.Host, SocketMarker)
                      THEN c.Host \o SocketMarker \o FormatInt(c.Port)
                      ELSE c.Host]
    ELSE [network |-> "tcp", address |-> c.Host \o <<":">> \o FormatInt(c.Port)]

\* func (cc *ConnConfig) NetworkAddress() (network, address string), with
\* staterr the error of os.Stat(cc.Host)
NetworkAddress(c, staterr) ==
    IF staterr = NoError
    THEN [network |-> "unix",
          address |-> IF ~Contains(c.Host, SocketMarker)
                      THEN Join(c.Host, SocketPrefix) \o FormatInt(c.Port)
                      ELSE c.Host]
    ELSE [network |-> "tcp", address |-> c.Host \o <<":">> \o FormatInt(c.Port)]

\* user.Current(): the OS user, or an error
UserLookups ==
    { [Username |-> OsUserName, err |-> NoError],
      [Username |-> StrEmpty, err |-> EnvError("user: Current not implemented")] }

DefaultPort == 5432

\* assignDefaults setting the port to 5432 whatever it was
assignDefaultsAnyPort(c, cur) ==
    IF c.User = StrEmpty /\ cur.err # NoError
    THEN [cc |-> c, err |-> cur.err]
    ELSE [cc |-> [c EXCEPT !.User = IF @ = StrEmpty THEN cur.Username ELSE @,
                           !.Port = DefaultPort,
                           !.Dial = IF @ = "nil" THEN "defaultDialer.Dial" ELSE @],
          err |-> NoError]

\* func (cc *ConnConfig) assignDefaults() error, with cur the result of
\* user.Current(); yields the configuration as left behind and the error
assignDefaults(c, cur) ==
    IF c.User = StrEmpty /\ cur.err # NoError
    THEN [cc |-> c, err |-> cur.err]
    ELSE [cc |-> [c EXCEPT !.User = IF @ = StrEmpty THEN cur.Username ELSE @,
                           !.Port = IF @ = 0 THEN DefaultPort ELSE @,
                           !.Dial = IF @ = "nil" THEN "defaultDialer.Dial" ELSE @],
          err |-> NoError]

\* the user names, and the strings hexMD5 is first applied to, when the
\* configurations above meet the salts above
HashedUsers == {assignDefaults(c, u).cc.User : c \in Configs, u \in UserLookups}

HashedInner == {c.Password \o u : c \in Configs, u \in HashedUsers}

\* their digests, and the digests of those followed by a salt: pairs
\* <<string, digest>>, computed once
WithSalted(inner) ==
    inner \cup {<<e[2] \o salt, hexMD5Compute(e[2] \o salt)>> : e \in inner, salt \in Salts}

hexMD5Table == WithSalted({<<x, hexMD5Compute(x)>> : x \in HashedInner})

\* the digest of s, from the table when s is in it
Lookup(s, hit) ==
    IF hit = {} THEN hexMD5Compute(s) ELSE (CHOOSE e \in hit : TRUE)[2]

TableEntries(table, s) == {e \in table : e[1] = s}

\* func hexMD5(s string) string
hexMD5(s) == Lookup(s, TableEntries(hexMD5Table, s))

\* new(PgConn)
ZeroPgConn ==
    [NetConn |-> "nil", PID |-> 0, SecretKey |-> 0, parameterStatuses |-> EmptyMap,
     TxStatus |-> 0, Frontend |-> "nil", Config |-> ZeroConfig]

\* one call of NetConn.Write: the stream written to, the frame, the outcome
WriteCall(stream, frame, err) == [stream |-> stream, frame |-> frame, err |-> err]

\* binary.Write(pgConn.NetConn, binary.BigEndian, []int32{8, 80877103})
SSLRequest == [type |-> "SSLRequest", words |-> <<SSLRequestLength, SSLRequestCode>>]

\* startTLS leaving the plain stream in place after the answer 'S'
startTLSResponseNoWrap(conn, b) ==
    IF b # ByteS
    THEN [conn |-> conn, err |-> ErrTLSRefused]
    ELSE [conn |-> conn, err |-> NoError]

\* startTLS refusing only the answer 'N'
startTLSResponseOnlyN(conn, b) ==
    IF b = 78
    THEN [conn |-> conn, err |-> ErrTLSRefused]
    ELSE [conn |-> [conn EXCEPT !.NetConn = "tls"], err |-> NoError]

\* startTLS after the response byte has been read
startTLSResponse(conn, b) ==
    IF b # ByteS
    THEN [conn |-> conn, err |-> ErrTLSRefused]
    ELSE [conn |-> [conn EXCEPT !.NetConn = "tls"], err |-> NoError]

\* the startup parameters with the run-time parameters copied last, over
\* user and database
StartupParametersDefaultsLast(c) ==
    LET own == IF c.Database # StrEmpty
               THEN Map2("user", c.User, "database", c.Database)
               ELSE Map1("user", c.User)
    IN  [k \in (DOMAIN own) \cup (DOMAIN c.RuntimeParams) |->
            IF k \in DOMAIN c.RuntimeParams THEN c.RuntimeParams[k] ELSE own[k]]

\* the startup message's parameters: the run-time parameters, then user,
\* then database unless it is empty
StartupParameters(c) ==
    LET withUser == MapPut(c.RuntimeParams, "user", c.User)
    IN  IF c.Database # StrEmpty
        THEN MapPut(withUser, "database", c.Database)
        ELSE withUser

StartupMessage(c) ==
    [type |-> "StartupMessage", ProtocolVersion |-> ProtocolVersionNumber,
     Parameters |-> StartupParameters(c)]

PasswordMessage(password) == [type |-> "PasswordMessage", Password |-> password]

\* func (pgConn *PgConn) txPasswordMessage(password string) (err error),
\* with werr the outcome of the write
txPasswordMessage(conn, password, werr) ==
    [wr |-> <<WriteCall(conn.NetConn, PasswordMessage(password), werr)>>, err |-> werr]

\* "md5"
MD5Prefix == <<109, 100, 53>>

\* rxAuthenticationX sending a password message for AuthTypeOk as well
rxAuthenticationXAnswersOk(c, msg, werr) ==
    CASE msg.Type \in {AuthTypeOk, AuthTypeCleartextPassword} ->
            txPasswordMessage(c, c.Config.Password, werr)
      [] msg.Type = AuthTypeMD5Password ->
            txPasswordMessage(c, MD5Prefix \o hexMD5(hexMD5(c.Config.Password
                                                               \o c.Config.User)
                                                        \o msg.Salt), werr)
      [] OTHER ->
            [wr |-> <<>>, err |-> ErrorsNew("Received unknown authentication message")]

\* rxAuthenticationX answering a cleartext request with the user name
rxAuthenticationXSendsUser(c, msg, werr) ==
    CASE msg.Type = AuthTypeOk -> [wr |-> <<>>, err |-> NoError]
      [] msg.Type = AuthTypeCleartextPassword ->
            txPasswordMessage(c, c.Config.User, werr)
      [] msg.Type = AuthTypeMD5Password ->
            txPasswordMessage(c, MD5Prefix \o hexMD5(hexMD5(c.Config.Password
                                                               \o c.Config.User)
                                                        \o msg.Salt), werr)
      [] OTHER ->
            [wr |-> <<>>, err |-> ErrorsNew("Received unknown authentication message")]

\* rxAuthenticationX hashing the user name before the password
rxAuthenticationXUserFirst(c, msg, werr) ==
    CASE msg.Type = AuthTypeOk -> [wr |-> <<>>, err |-> NoError]
      [] msg.Type = AuthTypeCleartextPassword ->
            txPasswordMessage(c, c.Config.Password, werr)
      [] msg.Type = AuthTypeMD5Password ->
            txPasswordMessage(c, MD5Prefix \o hexMD5(hexMD5(c.Config.User
                                                               \o c.Config.Password)
                                                        \o msg.Salt), werr)
      [] OTHER ->
            [wr |-> <<>>, err |-> ErrorsNew("Received unknown authentication message")]

\* rxAuthenticationX taking an unknown authentication type for success
rxAuthenticationXIgnoresUnknown(c, msg, werr) ==
    CASE msg.Type = AuthTypeCleartextPassword ->
            txPasswordMessage(c, c.Config.Password, werr)
      [] msg.Type = AuthTypeMD5Password ->
            txPasswordMessage(c, MD5Prefix \o hexMD5(hexMD5(c.Config.Password
                                                               \o c.Config.User)
                                                        \o msg.Salt), werr)
      [] OTHER -> [wr |-> <<>>, err |-> NoError]

\* func (c *PgConn) rxAuthenticationX(msg *pgproto3.Authentication) (err error)
rxAuthenticationX(c, msg, werr) ==
    CASE msg.Type = AuthTypeOk -> [wr |-> <<>>, err |-> NoError]
      [] msg.Type = AuthTypeCleartextPassword ->
            txPasswordMessage(c, c.Config.Password, werr)
      [] msg.Type = AuthTypeMD5Password ->
            LET digestedPassword ==
                    MD5Prefix \o hexMD5(hexMD5(c.Config.Password \o c.Config.User)
                                            \o msg.Salt)
            IN  txPasswordMessage(c, digestedPassword, werr)
      [] OTHER ->
            [wr |-> <<>>, err |-> ErrorsNew("Received unknown authentication message")]

\* ReceiveMessage leaving TxStatus as it was
ReceiveMessageKeepsTxStatus(conn, r) ==
    IF r.err # NoError
    THEN [conn |-> conn, msg |-> NoMsg, err |-> r.err]
    ELSE [conn |->
            CASE r.msg.type = "ParameterStatus" ->
                    [conn EXCEPT !.parameterStatuses = MapPut(@, r.msg.Name, r.msg.Value)]
              [] OTHER -> conn,
          msg |-> r.msg, err |-> NoError]

\* ReceiveMessage keeping the first value reported for a parameter
ReceiveMessageFirstWins(conn, r) ==
    IF r.err # NoError
    THEN [conn |-> conn, msg |-> NoMsg, err |-> r.err]
    ELSE [conn |->
            CASE r.msg.type = "ReadyForQuery" ->
                    [conn EXCEPT !.TxStatus = r.msg.TxStatus]
              [] r.msg.type = "ParameterStatus"
                    /\ r.msg.Name \notin DOMAIN conn.parameterStatuses ->
                    [conn EXCEPT !.parameterStatuses = MapPut(@, r.msg.Name, r.msg.Value)]
              [] OTHER -> conn,
          msg |-> r.msg, err |-> NoError]

\* func (pgConn *PgConn) ReceiveMessage() (pgproto3.BackendMessage, error),
\* with r what Frontend.Receive returns
ReceiveMessage(conn, r) ==
    IF r.err # NoError
    THEN [conn |-> conn, msg |-> NoMsg, err |-> r.err]
    ELSE [conn |->
            CASE r.msg.type = "ReadyForQuery" ->
                    [conn EXCEPT !.TxStatus = r.msg.TxStatus]
              [] r.msg.type = "ParameterStatus" ->
                    [conn EXCEPT !.parameterStatuses = MapPut(@, r.msg.Name, r.msg.Value)]
              [] OTHER -> conn,
          msg |-> r.msg, err |-> NoError]

\* func (pgConn *PgConn) ParameterStatus(key string) string
ParameterStatus(conn, key) == MapGet(conn.parameterStatuses, key, "")

\* the PgError with Detail and Hint taken from each other's field
PgErrorOfSwapped(msg) ==
    [type |-> "PgError",
     Severity |-> msg.Severity, Code |-> msg.Code, Message |-> msg.Message,
     Detail |-> msg.Hint, Hint |-> msg.Detail, Position |-> msg.Position,
     InternalPosition |-> msg.InternalPosition, InternalQuery |-> msg.InternalQuery,
     Where |-> msg.Where, SchemaName |-> msg.SchemaName, TableName |-> msg.TableName,
     ColumnName |-> msg.ColumnName, DataTypeName |-> msg.DataTypeName,
     ConstraintName |-> msg.ConstraintName, File |-> msg.File, Line |-> msg.Line,
     Routine |-> msg.Routine]

\* the PgError Connect builds from an ErrorResponse
PgErrorOf(msg) ==
    [type |-> "PgError",
     Severity |-> msg.Severity, Code |-> msg.Code, Message |-> msg.Message,
     Detail |-> msg.Detail, Hint |-> msg.Hint, Position |-> msg.Position,
     InternalPosition |-> msg.InternalPosition, InternalQuery |-> msg.InternalQuery,
     Where |-> msg.Where, SchemaName |-> msg.SchemaName, TableName |-> msg.TableName,
     ColumnName |-> msg.ColumnName, DataTypeName |-> msg.DataTypeName,
     ConstraintName |-> msg.ConstraintName, File |-> msg.File, Line |-> msg.Line,
     Routine |-> msg.Routine]

(***************************************************************************)
(* One pass of Connect's receive loop.  The outcome says whether Connect   *)
(* returns, with which (handle, error) pair and from which return          *)
(* statement, the session object as left behind, and the writes made.      *)
(***************************************************************************)
Continue(conn, wr) ==
    [ret |-> FALSE, pgConn |-> conn, handle |-> "nil", err |-> NoError,
     exit |-> "none", wr |-> wr]

Return(conn, handle, err, exit, wr) ==
    [ret |-> TRUE, pgConn |-> conn, handle |-> handle, err |-> err,
     exit |-> exit, wr |-> wr]

\* the BackendKeyData case storing the two numbers in each other's field
OnBackendKeyDataSwapped(conn, msg) ==
    Continue([conn EXCEPT !.PID = msg.SecretKey, !.SecretKey = msg.ProcessID], <<>>)

\* case *pgproto3.BackendKeyData
OnBackendKeyData(conn, msg) ==
    Continue([conn EXCEPT !.PID = msg.ProcessID, !.SecretKey = msg.SecretKey], <<>>)

\* the Authentication case going on after rxAuthenticationX has failed
AuthenticationOutcomeIgnoresError(conn, a) == Continue(conn, a.wr)

\* case *pgproto3.Authentication, with a what rxAuthenticationX returned
AuthenticationOutcome(conn, a) ==
    IF a.err # NoError
    THEN Return(conn, "nil", a.err, "rxAuthenticationX", a.wr)
    ELSE Continue(conn, a.wr)

OnAuthentication(conn, msg, werr) ==
    AuthenticationOutcome(conn, rxAuthenticationX(conn, msg, werr))

\* the ReadyForQuery case staying in the loop
OnReadyForQueryContinues(conn, msg) == Continue(conn, <<>>)

\* case *pgproto3.ReadyForQuery
OnReadyForQuery(conn, msg) == Return(conn, "pgConn", NoError, "ReadyForQuery", <<>>)

\* case *pgproto3.ParameterStatus
OnParameterStatus(conn, msg) == Continue(conn, <<>>)

\* the ErrorResponse case returning the session object along with the error
OnErrorResponseWithHandle(conn, msg) ==
    Return(conn, "pgConn", PgErrorOf(msg), "ErrorResponse", <<>>)

\* case *pgproto3.ErrorResponse
OnErrorResponse(conn, msg) == Return(conn, "nil", PgErrorOf(msg), "ErrorResponse", <<>>)

\* the default case dropping the message and staying in the loop
OnUnexpectedDropped(conn, msg) == Continue(conn, <<>>)

\* default
OnUnexpected(conn, msg) ==
    Return(conn, "nil", ErrorsNew("unexpected message"), "default", <<>>)

\* the loop calling ReceiveMessage again after it has failed
HandshakeStepRetries(conn, r, werr) ==
    LET rm == ReceiveMessage(conn, r)
    IN  IF rm.err # NoError
        THEN Continue(rm.conn, <<>>)
        ELSE CASE rm.msg.type = "BackendKeyData" -> OnBackendKeyData(rm.conn, rm.msg)
               [] rm.msg.type = "Authentication" -> OnAuthentication(rm.conn, rm.msg, werr)
               [] rm.msg.type = "ReadyForQuery" -> OnReadyForQuery(rm.conn, rm.msg)
               [] rm.msg.type = "ParameterStatus" -> OnParameterStatus(rm.conn, rm.msg)
               [] rm.msg.type = "ErrorResponse" -> OnErrorResponse(rm.conn, rm.msg)
               [] OTHER -> OnUnexpected(rm.conn, rm.msg)

\* the body of the for loop: ReceiveMessage, then the type switch
HandshakeStep(conn, r, werr) ==
    LET rm == ReceiveMessage(conn, r)
    IN  IF rm.err # NoError
        THEN Return(rm.conn, "nil", rm.err, "ReceiveMessage", <<>>)
        ELSE CASE rm.msg.type = "BackendKeyData" -> OnBackendKeyData(rm.conn, rm.msg)
               [] rm.msg.type = "Authentication" -> OnAuthentication(rm.conn, rm.msg, werr)
               [] rm.msg.type = "ReadyForQuery" -> OnReadyForQuery(rm.conn, rm.msg)
               [] rm.msg.type = "ParameterStatus" -> OnParameterStatus(rm.conn, rm.msg)
               [] rm.msg.type = "ErrorResponse" -> OnErrorResponse(rm.conn, rm.msg)
               [] OTHER -> OnUnexpected(rm.conn, rm.msg)

(***************************************************************************)
(* The state: one call of Connect, then the caller's use of the handle.    *)
(***************************************************************************)
VARIABLES
    pc,        \* where Connect stands; "returned" once it has returned
    arg,       \* the ConnConfig Connect was called with
    cc,        \* Connect's own copy of it
    pgConn,    \* the PgConn Connect builds
    result,    \* what Connect returned: [handle, err]
    exit,      \* the return statement Connect left by
    written,   \* every call of NetConn.Write (and binary.Write), in order
    rx,        \* every message Frontend.Receive has delivered, in order
    hsLen,     \* how many of them Connect itself received
    response,  \* the TLS response byte read by startTLS, <<>> before it is read
    recv,      \* what the caller's last ReceiveMessage returned: [msg, err]
    calls,     \* the calls Connect has made, other than Frontend.Receive, in order
    netConnClosed  \* whether Close has been called on the stream

vars ==
    <<pc, arg, cc, pgConn, result, exit, written, rx, hsLen, response, recv, calls,
      netConnClosed>>

\* one call made by Connect: what is called, on what, and the error returned
Call(op, what, err) == [op |-> op, what |-> what, err |-> err]

\* the calls that make up a sequence of at most one write
WriteCalls(wr) ==
    IF wr = <<>> THEN <<>> ELSE <<Call("Write", wr[1].frame.type, wr[1].err)>>

Init ==
    /\ arg \in Configs
    /\ cc = arg
    /\ pc = "assignDefaults"
    /\ pgConn = ZeroPgConn
    /\ result = [handle |-> "nil", err |-> NoError]
    /\ exit = "none"
    /\ written = <<>>
    /\ rx = <<>>
    /\ hsLen = 0
    /\ response = <<>>
    /\ recv = [msg |-> NoMsg, err |-> NoError]
    /\ calls = <<>>
    /\ netConnClosed = FALSE

\* return handle, err, closing the stream first when Connect has failed
ReturnFromClosing(stmt, handle, err) ==
    /\ pc' = "returned"
    /\ result' = [handle |-> handle, err |-> err]
    /\ exit' = stmt
    /\ netConnClosed' = (handle = "nil" /\ pgConn.NetConn # "nil")

\* return handle, err: Connect has no deferred call, and calls nothing on
\* its way out
ReturnFrom(stmt, handle, err) ==
    /\ pc' = "returned"
    /\ result' = [handle |-> handle, err |-> err]
    /\ exit' = stmt
    /\ netConnClosed' = netConnClosed

\* err := cc.assignDefaults(); pgConn := new(PgConn); pgConn.Config = cc
AssignDefaults ==
    /\ pc = "assignDefaults"
    /\ \E cur \in UserLookups :
        LET d == assignDefaults(cc, cur)
        IN  /\ cc' = d.cc
            /\ calls' = Append(calls, Call("assignDefaults", "", d.err))
            /\ IF d.err # NoError
               THEN ReturnFrom("assignDefaults", "nil", d.err) /\ UNCHANGED pgConn
               ELSE /\ pgConn' = [ZeroPgConn EXCEPT !.Config = d.cc]
                    /\ pc' = "Dial"
                    /\ UNCHANGED <<result, exit, netConnClosed>>
    /\ UNCHANGED <<arg, written, rx, hsLen, response, recv>>

\* Connect taking the TLS branch whatever the configuration
AfterDialAlwaysTLS(c) == "startTLS"

\* if cc.TLSConfig != nil { pgConn.startTLS(cc.TLSConfig) }: what follows
\* the dial
AfterDial(c) == IF c.TLSConfig # "nil" THEN "startTLS" ELSE "NewFrontend"

\* pgConn.NetConn, err = cc.Dial(cc.NetworkAddress());
\* pgConn.parameterStatuses = make(map[string]string)
Dial ==
    /\ pc = "Dial"
    /\ \E e \in IOOutcomes :
        /\ calls' = Append(calls, Call("Dial", NetworkAddress(cc, Stat(cc.Host)), e))
        /\ IF e # NoError
           THEN ReturnFrom("Dial", "nil", e) /\ UNCHANGED pgConn
           ELSE /\ pgConn' = [pgConn EXCEPT !.NetConn = "plain",
                                            !.parameterStatuses = EmptyMap]
                /\ pc' = AfterDial(cc)
                /\ UNCHANGED <<result, exit, netConnClosed>>
    /\ UNCHANGED <<arg, cc, written, rx, hsLen, response, recv>>

\* startTLS: the negotiation request is written
StartTLSWrite ==
    /\ pc = "startTLS"
    /\ \E e \in IOOutcomes :
        /\ written' = Append(written, WriteCall(pgConn.NetConn, SSLRequest, e))
        /\ calls' = Append(calls, Call("Write", SSLRequest.type, e))
        /\ IF e # NoError
           THEN ReturnFrom("startTLS", "nil", e)
           ELSE pc' = "startTLSRead" /\ UNCHANGED <<result, exit, netConnClosed>>
    /\ UNCHANGED <<arg, cc, pgConn, rx, hsLen, response, recv>>

\* startTLS: io.ReadFull of one byte, the test of it, tls.Client
StartTLSRead ==
    /\ pc = "startTLSRead"
    /\ \/ \E e \in IOErrors :
            /\ calls' = Append(calls, Call("Read", "response", e))
            /\ ReturnFrom("startTLS", "nil", e)
            /\ UNCHANGED <<pgConn, response>>
       \/ \E b \in TLSResponses :
            LET t == startTLSResponse(pgConn, b)
            IN  /\ calls' = Append(calls, Call("Read", "response", NoError))
                /\ response' = <<b>>
                /\ pgConn' = t.conn
                /\ IF t.err # NoError
                   THEN ReturnFrom("startTLS", "nil", t.err)
                   ELSE pc' = "NewFrontend" /\ UNCHANGED <<result, exit, netConnClosed>>
    /\ UNCHANGED <<arg, cc, written, rx, hsLen, recv>>

\* pgConn.Frontend, err = pgproto3.NewFrontend(pgConn.NetConn, pgConn.NetConn)
NewFrontend ==
    /\ pc = "NewFrontend"
    /\ \E e \in {NoError, EnvError("NewFrontend")} :
        /\ calls' = Append(calls, Call("NewFrontend", pgConn.NetConn, e))
        /\ IF e # NoError
           THEN ReturnFrom("NewFrontend", "nil", e) /\ UNCHANGED pgConn
           ELSE /\ pgConn' = [pgConn EXCEPT !.Frontend = "frontend"]
                /\ pc' = "Write"
                /\ UNCHANGED <<result, exit, netConnClosed>>
    /\ UNCHANGED <<arg, cc, written, rx, hsLen, response, recv>>

\* the startup message is built and written
WriteStartup ==
    /\ pc = "Write"
    /\ \E e \in IOOutcomes :
        /\ written' = Append(written, WriteCall(pgConn.NetConn, StartupMessage(cc), e))
        /\ calls' = Append(calls, Call("Write", "StartupMessage", e))
        /\ IF e # NoError
           THEN ReturnFrom("Write", "nil", e)
           ELSE pc' = "loop" /\ UNCHANGED <<result, exit, netConnClosed>>
    /\ UNCHANGED <<arg, cc, pgConn, rx, hsLen, response, recv>>

\* the effect of one pass of the for loop with outcome o, r being what
\* Frontend.Receive returned
HandshakeEffect(o, r) ==
    /\ pgConn' = o.pgConn
    /\ written' = written \o o.wr
    /\ calls' = calls \o WriteCalls(o.wr)
    /\ rx' = IF r.err = NoError THEN Append(rx, r.msg) ELSE rx
    /\ hsLen' = Len(rx')
    /\ IF o.ret
       THEN ReturnFrom(o.exit, o.handle, o.err)
       ELSE UNCHANGED <<pc, result, exit, netConnClosed>>

\* one pass of the for loop; the codec delivers at most MaxMsgs messages,
\* after which a receive can only fail
Handshake ==
    /\ pc = "loop"
    /\ \E r \in ReceiveResults, werr \in IOOutcomes :
        /\ r.err = NoError => Len(rx) < MaxMsgs
        /\ HandshakeEffect(HandshakeStep(pgConn, r, werr), r)
    /\ UNCHANGED <<arg, cc, response, recv>>

\* the caller calls ReceiveMessage on the handle Connect returned
CallerReceive ==
    /\ pc = "returned"
    /\ result.handle = "pgConn"
    /\ \E r \in CallerReceiveResults :
        LET rm == ReceiveMessage(pgConn, r)
        IN  /\ r.err = NoError => Len(rx) < MaxMsgs
            /\ pgConn' = rm.conn
            /\ recv' = [msg |-> rm.msg, err |-> rm.err]
            /\ rx' = IF r.err = NoError THEN Append(rx, r.msg) ELSE rx
    /\ UNCHANGED <<pc, arg, cc, result, exit, written, hsLen, response, calls,
                   netConnClosed>>

\* the steps of Connect
ConnectStep ==
    \/ AssignDefaults
    \/ Dial
    \/ StartTLSWrite
    \/ StartTLSRead
    \/ NewFrontend
    \/ WriteStartup
    \/ Handshake

Next ==
    \/ AssignDefaults
    \/ Dial
    \/ StartTLSWrite
    \/ StartTLSRead
    \/ NewFrontend
    \/ WriteStartup
    \/ Handshake
    \/ CallerReceive

Spec == Init /\ [][Next]_vars

\* every call Connect makes returns, so Connect takes its next step
LiveSpec == Init /\ [][Next]_vars /\ WF_vars(ConnectStep)

(***************************************************************************)
(* The properties.                                                         *)
(***************************************************************************)
\* the messages Connect itself received
hs == SubSeq(rx, 1, hsLen)

Max(S) == CHOOSE x \in S : \A y \in S : y <= x

HandledTypes ==
    {"BackendKeyData", "Authentication", "ReadyForQuery", "ParameterStatus", "ErrorResponse"}

IsPasswordWrite(w) == w.frame.type = "PasswordMessage"

IsPasswordRequest(m) ==
    m.type = "Authentication"
        /\ m.Type \in {AuthTypeCleartextPassword, AuthTypeMD5Password}

\* the password-response frames written, and the authentication requests
\* that ask for one, each in order
passwordWrites == SelectSeq(written, IsPasswordWrite)

passwordRequests == SelectSeq(hs, IsPasswordRequest)

\* the user name of the session: the configured one, or the OS user's
SessionUser == IF arg.User = StrEmpty THEN OsUserName ELSE arg.User

\* md5 credentials computed outside the model (Python hashlib) for every
\* password, user name and salt of the model:
\* <<password, user, salt, "md5" + hex(md5(hex(md5(password + user)) + salt))>>
KnownCredentials ==
    {
      \* md5cb38f15ce1fcb6e1c15f9a188dcaaa9b
      <<StrPw, StrBob, <<1, 2, 3, 4>>,
        <<109, 100, 53, 99, 98, 51, 56, 102, 49, 53, 99, 101, 49, 102, 99, 98, 54, 101,
          49, 99, 49, 53, 102, 57, 97, 49, 56, 56, 100, 99, 97, 97, 97, 57, 98>>>>,
      \* md50f2e98a2fd5cacb2b28182c7e9221fd9
      <<StrPw, StrBob, <<255, 0, 10, 128>>,
        <<109, 100, 53, 48, 102, 50, 101, 57, 56, 97, 50, 102, 100, 53, 99, 97, 99, 98,
          50, 98, 50, 56, 49, 56, 50, 99, 55, 101, 57, 50, 50, 49, 102, 100, 57>>>>,
      \* md522dd1945eba5b74d900b61aefe2c8e0f
      <<StrPw, StrOs, <<1, 2, 3, 4>>,
        <<109, 100, 53, 50, 50, 100, 100, 49, 57, 52, 53, 101, 98, 97, 53, 98, 55, 52,
          100, 57, 48, 48, 98, 54, 49, 97, 101, 102, 101, 50, 99, 56, 101, 48, 102>>>>,
      \* md5a2cc18844eb8865bab40ad5b87f289ec
      <<StrPw, StrOs, <<255, 0, 10, 128>>,
        <<109, 100, 53, 97, 50, 99, 99, 49, 56, 56, 52, 52, 101, 98, 56, 56, 54, 53,
          98, 97, 98, 52, 48, 97, 100, 53, 98, 56, 55, 102, 50, 56, 57, 101, 99>>>>,
      \* md5487a90d0625166f86698afb893fc916d
      <<StrEmpty, StrBob, <<1, 2, 3, 4>>,
        <<109, 100, 53, 52, 56, 55, 97, 57, 48, 100, 48, 54, 50, 53, 49, 54, 54, 102,
          56, 54, 54, 57, 56, 97, 102, 98, 56, 57, 51, 102, 99, 57, 49, 54, 100>>>>,
      \* md5cac26aea8497a611b7b42918d0c787bd
      <<StrEmpty, StrBob, <<255, 0, 10, 128>>,
        <<109, 100, 53, 99, 97, 99, 50, 54, 97, 101, 97, 56, 52, 57, 55, 97, 54, 49,
          49, 98, 55, 98, 52, 50, 57, 49, 56, 100, 48, 99, 55, 56, 55, 98, 100>>>>,
      \* md547e833002ab5c437d6b006f863f2c833
      <<StrEmpty, StrOs, <<1, 2, 3, 4>>,
        <<109, 100, 53, 52, 55, 101, 56, 51, 51, 48, 48, 50, 97, 98, 53, 99, 52, 51,
          55, 100, 54, 98, 48, 48, 54, 102, 56, 54, 51, 102, 50, 99, 56, 51, 51>>>>,
      \* md5076b77d696589188a3b729bf727a8ff2
      <<StrEmpty, StrOs, <<255, 0, 10, 128>>,
        <<109, 100, 53, 48, 55, 54, 98, 55, 55, 100, 54, 57, 54, 53, 56, 57, 49, 56,
          56, 97, 51, 98, 55, 50, 57, 98, 102, 55, 50, 55, 97, 56, 102, 102, 50>>>>
    }

\* C1: Connect returns either (session handle, no error) or (no handle, an
\* error); from every return statement other than the one of the
\* ready-for-query case the handle is nil and the error is not, so the
\* session object under construction is handed out only when complete.
C1_HandleOrError ==
    /\ pc # "returned" => result = [handle |-> "nil", err |-> NoError] /\ exit = "none"
    /\ pc = "returned" =>
        /\ \/ result.handle = "pgConn" /\ result.err = NoError
           \/ result.handle = "nil" /\ result.err # NoError
        /\ exit \in {"assignDefaults", "Dial", "startTLS", "NewFrontend", "Write",
                     "ReceiveMessage", "rxAuthenticationX", "ErrorResponse", "default",
                     "ReadyForQuery"}
        /\ exit # "ReadyForQuery" => result.handle = "nil" /\ result.err # NoError
        /\ result.handle = "pgConn" =>
            exit = "ReadyForQuery" /\ pgConn.NetConn # "nil" /\ pgConn.Frontend # "nil"

\* Connect failed on an error response after the session object had been
\* given a process id
C1_Witness ==
    /\ pc = "returned"
    /\ exit = "ErrorResponse"
    /\ pgConn.PID = 101
    /\ result.handle = "nil"

\* C2: Connect returns a handle exactly when the last message it received
\* is a ready-for-query message; no earlier message of the handshake is
\* one, and while Connect is still in its loop none has been received.
C2_HandleIffReadyForQuery ==
    /\ pc \notin {"loop", "returned"} => hsLen = 0
    /\ \A i \in 1..(hsLen - 1) : hs[i].type # "ReadyForQuery"
    /\ pc = "loop" => \A i \in 1..hsLen : hs[i].type # "ReadyForQuery"
    /\ pc = "returned" =>
        (result.handle = "pgConn" <=> (hsLen > 0 /\ hs[hsLen].type = "ReadyForQuery"))

\* a handshake of a single message, ready-for-query, has succeeded
C2_Witness ==
    /\ pc = "returned"
    /\ result.handle = "pgConn"
    /\ hsLen = 1
    /\ pgConn.PID = 0

\* C3: while Connect is in its loop or has returned a handle, the session's
\* PID and SecretKey are those of the last backend-key-data message of the
\* handshake; a handle comes with no error; and Connect does not return on
\* a backend-key-data message (if it is the last one received, Connect
\* left because the next receive failed).
C3_BackendKeyData ==
    LET idx == {i \in 1..hsLen : hs[i].type = "BackendKeyData"}
    IN  /\ (idx # {} /\ (pc = "loop" \/ result.handle = "pgConn")) =>
            /\ pgConn.PID = hs[Max(idx)].ProcessID
            /\ pgConn.SecretKey = hs[Max(idx)].SecretKey
        /\ result.handle = "pgConn" => result.err = NoError
        /\ (pc = "returned" /\ hsLen > 0 /\ hs[hsLen].type = "BackendKeyData") =>
            exit = "ReceiveMessage"

\* the handshake [authentication-ok, backend-key-data, ready-for-query]
\* has succeeded
C3_Witness ==
    /\ result.handle = "pgConn"
    /\ hsLen = 3
    /\ hs[1].type = "Authentication" /\ hs[1].Type = AuthTypeOk
    /\ hs[2].type = "BackendKeyData"
    /\ hs[3].type = "ReadyForQuery"
    /\ pgConn.PID = 303 /\ pgConn.SecretKey = 404

\* C4: once a TLS response byte other than 'S' has been read, Connect has
\* returned no handle and ErrTLSRefused, the stream is still the plain one,
\* and the negotiation request is the only thing written; the stream is the
\* TLS-wrapped one exactly when the byte 'S' has been read, and a byte is
\* read only when a TLS policy is configured.
C4_TLSRefused ==
    /\ (response # <<>> /\ response[1] # ByteS) =>
        /\ pc = "returned"
        /\ result = [handle |-> "nil", err |-> ErrTLSRefused]
        /\ pgConn.NetConn = "plain"
        /\ written = <<WriteCall("plain", SSLRequest, NoError)>>
    /\ pgConn.NetConn = "tls" <=> response = <<ByteS>>
    /\ response = <<ByteS>> => ~(pc = "returned" /\ exit = "startTLS")
    /\ response # <<>> => arg.TLSConfig # "nil"

\* the server answered 'N'
C4_Witness ==
    /\ response = <<78>>
    /\ pc = "returned"
    /\ result.err = ErrTLSRefused

\* C5: an error-response message of the handshake is the last message
\* Connect received, and Connect has returned no handle and a PgError
\* each of whose seventeen fields is the message's.
C5_ErrorResponse ==
    \A i \in 1..hsLen :
        hs[i].type = "ErrorResponse" =>
            /\ i = hsLen
            /\ pc = "returned"
            /\ result.handle = "nil"
            /\ result.err.type = "PgError"
            /\ result.err.Severity = hs[i].Severity
            /\ result.err.Code = hs[i].Code
            /\ result.err.Message = hs[i].Message
            /\ result.err.Detail = hs[i].Detail
            /\ result.err.Hint = hs[i].Hint
            /\ result.err.Position = hs[i].Position
            /\ result.err.InternalPosition = hs[i].InternalPosition
            /\ result.err.InternalQuery = hs[i].InternalQuery
            /\ result.err.Where = hs[i].Where
            /\ result.err.SchemaName = hs[i].SchemaName
            /\ result.err.TableName = hs[i].TableName
            /\ result.err.ColumnName = hs[i].ColumnName
            /\ result.err.DataTypeName = hs[i].DataTypeName
            /\ result.err.ConstraintName = hs[i].ConstraintName
            /\ result.err.File = hs[i].File
            /\ result.err.Line = hs[i].Line
            /\ result.err.Routine = hs[i].Routine
            /\ DOMAIN result.err = (DOMAIN hs[i])

\* an error response arrived after two other messages
C5_Witness ==
    /\ hsLen = 3
    /\ hs[3].type = "ErrorResponse"
    /\ pc = "returned"
    /\ result.err.type = "PgError"

\* C6: a message of the handshake whose kind is none of the five handled
\* ones is the last message Connect received, and Connect has returned no
\* handle and the error "unexpected message".
C6_UnexpectedMessage ==
    \A i \in 1..hsLen :
        hs[i].type \notin HandledTypes =>
            /\ i = hsLen
            /\ pc = "returned"
            /\ result = [handle |-> "nil", err |-> ErrorsNew("unexpected message")]

\* a notice response arrived after a parameter status
C6_Witness ==
    /\ hsLen = 2
    /\ hs[1].type = "ParameterStatus"
    /\ hs[2].type = "NoticeResponse"
    /\ pc = "returned"

\* C7: the password-response frames written are as many as the cleartext
\* and MD5 requests of the handshake, and the frame written for a
\* cleartext request carries the password Connect was configured with.
C7_CleartextPassword ==
    /\ Len(passwordWrites) = Len(passwordRequests)
    /\ \A k \in 1..Len(passwordRequests) :
        passwordRequests[k].Type = AuthTypeCleartextPassword =>
            passwordWrites[k].frame = [type |-> "PasswordMessage", Password |-> arg.Password]

\* a cleartext request was answered with the password "pw"
C7_Witness ==
    /\ Len(passwordRequests) = 1
    /\ passwordRequests[1].Type = AuthTypeCleartextPassword
    /\ passwordWrites[1].frame.Password = StrPw
    /\ hs[hsLen].type = "Authentication"

\* the credential the formula "md5" + hex(H(hex(H(password + user)) + salt))
\* gives, with H the digest computed in full, for every password, user
\* name and salt of the model
FormulaCredentials ==
    { <<c.Password, u, salt,
        MD5Prefix \o hexMD5Compute(hexMD5Compute(c.Password \o u) \o salt)>> :
        c \in Configs, u \in HashedUsers, salt \in Salts }

\* C8: the frame written for an MD5 request carries
\* "md5" + hex(H(hex(H(password + user)) + salt)) for the configured
\* password, the session's user name and the request's salt; that string is
\* the one an independent MD5 gives for the same three values, in lowercase
\* hexadecimal, and it is a function of the three values alone.
C8_MD5Password ==
    \A k \in 1..Len(passwordRequests) :
        passwordRequests[k].Type = AuthTypeMD5Password =>
            /\ k <= Len(passwordWrites)
            /\ passwordWrites[k].frame.type = "PasswordMessage"
            /\ <<arg.Password, SessionUser, passwordRequests[k].Salt,
                 passwordWrites[k].frame.Password>> \in FormulaCredentials
            /\ <<arg.Password, SessionUser, passwordRequests[k].Salt,
                 passwordWrites[k].frame.Password>> \in KnownCredentials
            /\ Len(passwordWrites[k].frame.Password) = 35
            /\ \A j \in 4..35 :
                passwordWrites[k].frame.Password[j] \in (48..57) \cup (97..102)

\* an MD5 request with salt 1, 2, 3, 4 was answered for password "pw" and
\* the OS user
C8_Witness ==
    /\ Len(passwordRequests) = 1
    /\ passwordRequests[1].Type = AuthTypeMD5Password
    /\ passwordRequests[1].Salt = <<1, 2, 3, 4>>
    /\ arg.Password = StrPw /\ arg.User = StrEmpty
    /\ Len(passwordWrites) = 1
    /\ passwordWrites[1].frame.Password[4] = 50

\* C9: an authentication request of an unknown type is the last message
\* Connect received, Connect has returned no handle and the error
\* "Received unknown authentication message", and no frame was written for
\* it; a password-response write that failed is the last write, and Connect
\* has returned no handle and that write's error.
C9_AuthenticationFailure ==
    /\ \A i \in 1..hsLen :
        (hs[i].type = "Authentication"
            /\ hs[i].Type \notin {AuthTypeOk, AuthTypeCleartextPassword, AuthTypeMD5Password}) =>
            /\ i = hsLen
            /\ pc = "returned"
            /\ exit = "rxAuthenticationX"
            /\ result = [handle |-> "nil",
                         err |-> ErrorsNew("Received unknown authentication message")]
    /\ Len(passwordWrites) = Len(passwordRequests)
    /\ \A k \in 1..Len(written) :
        (IsPasswordWrite(written[k]) /\ written[k].err # NoError) =>
            /\ k = Len(written)
            /\ pc = "returned"
            /\ exit = "rxAuthenticationX"
            /\ result = [handle |-> "nil", err |-> written[k].err]

\* a request of an unknown type arrived after a cleartext request had been
\* answered
C9_Witness ==
    /\ hsLen = 2
    /\ hs[1].type = "Authentication" /\ hs[1].Type = AuthTypeCleartextPassword
    /\ hs[2].type = "Authentication" /\ hs[2].Type = 2
    /\ Len(passwordWrites) = 1
    /\ pc = "returned"

\* C10: ParameterStatus(k) is the value of the last parameter-status
\* message received for k, by Connect or by the caller, and the empty string
\* when there is none.
C10_ParameterStatus ==
    \A k \in {"server_version", "client_encoding", "application_name"} :
        LET idx == {i \in 1..Len(rx) : rx[i].type = "ParameterStatus" /\ rx[i].Name = k}
        IN  ParameterStatus(pgConn, k) = IF idx = {} THEN "" ELSE rx[Max(idx)].Value

\* the caller received server_version = 9.6 after the handshake, in which
\* 10 had been reported
C10_Witness ==
    /\ result.handle = "pgConn"
    /\ hsLen = 2
    /\ hs[1] = [type |-> "ParameterStatus", Name |-> "server_version", Value |-> "10"]
    /\ Len(rx) = 3
    /\ rx[3] = [type |-> "ParameterStatus", Name |-> "server_version", Value |-> "9.6"]
    /\ ParameterStatus(pgConn, "server_version") = "9.6"
    /\ ParameterStatus(pgConn, "client_encoding") = ""

\* C11: the session's TxStatus is the transaction-status byte of the last
\* ready-for-query message received, by Connect or by the caller, and zero
\* when there is none; a handle Connect returned has received one, the
\* message that ended the handshake.
C11_TxStatus ==
    LET idx == {i \in 1..Len(rx) : rx[i].type = "ReadyForQuery"}
    IN  /\ pgConn.TxStatus = IF idx = {} THEN 0 ELSE rx[Max(idx)].TxStatus
        /\ (result.handle = "pgConn" /\ Len(rx) = hsLen) =>
            /\ hs[hsLen].type = "ReadyForQuery"
            /\ pgConn.TxStatus = hs[hsLen].TxStatus

\* the handshake ended with status 'T'; the caller then received a
\* ready-for-query with status 'I' and, after it, a parameter status
C11_Witness ==
    /\ result.handle = "pgConn"
    /\ hsLen = 1
    /\ hs[1] = [type |-> "ReadyForQuery", TxStatus |-> 84]
    /\ Len(rx) = 3
    /\ rx[2] = [type |-> "ReadyForQuery", TxStatus |-> 73]
    /\ rx[3].type = "ParameterStatus"
    /\ recv.err = NoError
    /\ pgConn.TxStatus = 73

\* the calls of one kind among the calls Connect has made
IsDial(c) == c.op = "Dial"

IsSSLRequestWrite(c) == c.op = "Write" /\ c.what = "SSLRequest"

IsStartupWrite(c) == c.op = "Write" /\ c.what = "StartupMessage"

IsAssignDefaults(c) == c.op = "assignDefaults"

\* C12: Connect dials at most once and writes the TLS negotiation request
\* and the startup message at most once each; a call that returned an error
\* is the last call Connect made, and Connect has returned no handle and
\* that error; a TLS refusal and a failed receive end Connect the same way,
\* the refusal right after the read of the response byte.
C12_NoRetry ==
    /\ Len(SelectSeq(calls, IsDial)) <= 1
    /\ Len(SelectSeq(calls, IsSSLRequestWrite)) <= 1
    /\ Len(SelectSeq(calls, IsStartupWrite)) <= 1
    /\ \A i \in 1..Len(calls) :
        calls[i].err # NoError =>
            /\ i = Len(calls)
            /\ pc = "returned"
            /\ result = [handle |-> "nil", err |-> calls[i].err]
    /\ (response # <<>> /\ response[1] # ByteS) =>
        /\ pc = "returned"
        /\ calls[Len(calls)] = Call("Read", "response", NoError)
        /\ result.err = ErrTLSRefused
    /\ exit = "ReceiveMessage" =>
        /\ pc = "returned"
        /\ result.handle = "nil"
        /\ result.err \in IOErrors
        /\ calls[Len(calls)].err = NoError
    /\ (pc = "returned" /\ result.err # NoError) =>
        \/ calls[Len(calls)].err = result.err
        \/ exit = "startTLS" /\ result.err = ErrTLSRefused
        \/ exit \in {"ReceiveMessage", "ErrorResponse", "default", "rxAuthenticationX"}

\* with TLS negotiated, the startup write failed: it is the sixth and last
\* call
C12_Witness ==
    /\ pc = "returned"
    /\ exit = "Write"
    /\ Len(calls) = 6
    /\ calls[3] = Call("Write", "SSLRequest", NoError)
    /\ calls[6] = Call("Write", "StartupMessage", EnvError("EPIPE"))
    /\ result.err = EnvError("EPIPE")

\* the dial Connect made, if it made one
dialCalls == SelectSeq(calls, IsDial)

\* the port Connect dials: the configured one, or 5432 for 0
SessionPort == IF arg.Port = 0 THEN 5432 ELSE arg.Port

\* socket addresses written out by hand from the rules of filepath.Join for
\* the hosts of the model that are not in clean form:
\* <<host, port, address>>
KnownSocketAddresses ==
    { <<HostTmpSlash, 6543,
        <<"/", "t", "m", "p", "/", ".", "s", ".", "P", "G", "S", "Q", "L", ".", "6", "5", "4", "3">>>>,
      <<HostParent, 80,
        <<"/", "t", "m", "p", "/", ".", "s", ".", "P", "G", "S", "Q", "L", ".", "8", "0">>>>,
      <<HostDot, 5432,
        <<".", "s", ".", "P", "G", "S", "Q", "L", ".", "5", "4", "3", "2">>>> }

\* a path that filepath.Clean leaves as it is, other than "/" and "."
IsCleanPath(p) == Clean(p) = p /\ p # <<"/">> /\ p # <<".">>

\* C13 as stated: the address dialed is ("unix", host/.s.PGSQL.<port>) for
\* a host that is an existing path without the socket-file marker, ("unix",
\* host) for an existing path with the marker, ("tcp", host:port) when the
\* file-system check fails, the port being the defaulted one.
C13_AsStated ==
    \A i \in 1..Len(dialCalls) :
        dialCalls[i].what =
            IF arg.Host \in ExistingPaths
            THEN IF ~Contains(arg.Host, SocketMarker)
                 THEN [network |-> "unix",
                       address |-> arg.Host \o SocketMarker \o FormatInt(SessionPort)]
                 ELSE [network |-> "unix", address |-> arg.Host]
            ELSE [network |-> "tcp",
                  address |-> arg.Host \o <<":">> \o FormatInt(SessionPort)]

\* C13, amended: for an existing path without the marker the address is
\* ("unix", filepath.Join(host, ".s.PGSQL.") followed by the port): the
\* path is cleaned lexically (a trailing or doubled separator and "."
\* elements are dropped, ".." is resolved), so the address is
\* host/.s.PGSQL.<port> only when the host is a clean path other than "/"
\* and "."; the other two cases and the port are as stated.
C13_NetworkAddress ==
    \A i \in 1..Len(dialCalls) :
        LET w == dialCalls[i].what
            port == FormatInt(SessionPort)
        IN  IF arg.Host \in ExistingPaths
            THEN IF ~Contains(arg.Host, SocketMarker)
                 THEN /\ w.network = "unix"
                      /\ w.address = Clean(arg.Host \o <<"/">> \o SocketPrefix) \o port
                      /\ IsCleanPath(arg.Host) =>
                            w.address = arg.Host \o SocketMarker \o port
                      /\ ~IsCleanPath(arg.Host) =>
                            <<arg.Host, SessionPort, w.address>> \in KnownSocketAddresses
                 ELSE w = [network |-> "unix", address |-> arg.Host]
            ELSE w = [network |-> "tcp", address |-> arg.Host \o <<":">> \o port]

\* Connect dialed for the host "/tmp/": the address has one separator
\* before the socket-file name
C13_Witness ==
    /\ arg.Host = HostTmpSlash
    /\ Len(dialCalls) = 1
    /\ dialCalls[1].what.network = "unix"
    /\ dialCalls[1].what.address =
        <<"/", "t", "m", "p", "/", ".", "s", ".", "P", "G", "S", "Q", "L", ".", "6", "5", "4", "3">>

\* the writes made after the startup message was written
IsStartupFrame(w) == w.frame.type = "StartupMessage"

writesAfterStartup ==
    LET idx == {i \in 1..Len(written) : IsStartupFrame(written[i])}
    IN  IF idx = {} THEN <<>> ELSE SubSeq(written, Max(idx) + 1, Len(written))

\* C14: every frame written after the startup message is a password
\* response, none is written before it, and at every point of the handshake
\* the frames written after the startup message are as many as the
\* cleartext and MD5 requests received so far: each such request has caused
\* one write, and no other message has caused any.
C14_WritesPerMessage ==
    /\ \A i \in 1..Len(writesAfterStartup) : IsPasswordWrite(writesAfterStartup[i])
    /\ Len(writesAfterStartup) = Len(passwordWrites)
    /\ Len(writesAfterStartup) = Len(passwordRequests)
    /\ Len(SelectSeq(written, IsStartupFrame)) <= 1
    /\ \A i \in 1..Len(written) :
        written[i].frame.type \in {"SSLRequest", "StartupMessage", "PasswordMessage"}

\* a cleartext request, authentication-ok and a backend-key-data message
\* have been received, and one password response written
C14_Witness ==
    /\ pc = "loop"
    /\ hsLen = 3
    /\ hs[1].type = "Authentication" /\ hs[1].Type = AuthTypeCleartextPassword
    /\ hs[2].type = "Authentication" /\ hs[2].Type = AuthTypeOk
    /\ hs[3].type = "BackendKeyData"
    /\ Len(writesAfterStartup) = 1
    /\ IsPasswordWrite(writesAfterStartup[1])

\* the startup messages written
startupWrites == SelectSeq(written, IsStartupFrame)

\* C15: the startup message written carries protocol version 3.0 and, as
\* parameters, user with the session's user name, database with the
\* configured database when that is not empty, and every other run-time
\* parameter of the configuration with its value; a user or database entry
\* among the run-time parameters is replaced, except database when no
\* database is configured.
C15_StartupMessage ==
    \A i \in 1..Len(startupWrites) :
        LET f == startupWrites[i].frame
            p == f.Parameters
        IN  /\ f.ProtocolVersion = 3 * 65536
            /\ f.ProtocolVersion = ProtocolVersionNumber
            /\ DOMAIN p = (DOMAIN arg.RuntimeParams) \cup {"user"}
                            \cup (IF arg.Database # StrEmpty THEN {"database"} ELSE {})
            /\ p["user"] = SessionUser
            /\ arg.Database # StrEmpty => p["database"] = arg.Database
            /\ \A k \in DOMAIN arg.RuntimeParams :
                (k # "user" /\ (k # "database" \/ arg.Database = StrEmpty)) =>
                    p[k] = arg.RuntimeParams[k]

\* the run-time parameters name user eve and database other; the startup
\* message written names the configured user bob and database db
C15_Witness ==
    /\ Len(startupWrites) = 1
    /\ arg.RuntimeParams = Map2("user", StrEve, "database", StrOther)
    /\ arg.Database = StrDb
    /\ startupWrites[1].frame.Parameters = Map2("user", StrBob, "database", StrDb)
    /\ pc = "loop"

\* what a call is: the frame for a write, the operation for the others
CallKind(c) == IF c.op = "Write" THEN c.what ELSE c.op

\* the calls of a Connect that gets as far as its receive loop, by kind
StepsBeforeLoop(tls) ==
    <<"assignDefaults", "Dial">>
        \o (IF tls THEN <<"SSLRequest", "Read">> ELSE <<>>)
        \o <<"NewFrontend", "StartupMessage">>

\* C16: the calls Connect has made are, in this order, assignDefaults, one
\* dial, the TLS negotiation write and the one-byte read exactly when a TLS
\* policy is configured, the codec construction, the startup write, and
\* from then on password responses only; a message has been received, or a
\* receive attempted, only after the startup write succeeded, and the
\* startup message is written, with TLS configured, only after the byte 'S'
\* was read.
C16_StepOrder ==
    LET steps == StepsBeforeLoop(arg.TLSConfig # "nil")
    IN  /\ \A i \in 1..Len(calls) :
            CallKind(calls[i]) = IF i <= Len(steps) THEN steps[i] ELSE "PasswordMessage"
        /\ (hsLen > 0 \/ pc = "loop" \/ exit = "ReceiveMessage") =>
            /\ Len(calls) >= Len(steps)
            /\ calls[Len(steps)] = Call("Write", "StartupMessage", NoError)
        /\ (arg.TLSConfig # "nil" /\ Len(startupWrites) > 0) =>
            /\ response = <<ByteS>>
            /\ calls[3] = Call("Write", "SSLRequest", NoError)
            /\ calls[4] = Call("Read", "response", NoError)
        /\ arg.TLSConfig = "nil" =>
            /\ response = <<>>
            /\ \A i \in 1..Len(written) : written[i].frame.type # "SSLRequest"
        /\ (pc \notin {"assignDefaults", "Dial"} /\ exit \notin {"assignDefaults", "Dial"}) =>
            calls[2].op = "Dial" /\ calls[2].err = NoError

\* with a TLS policy, Connect has made its six calls and received one
\* message
C16_Witness ==
    /\ arg.TLSConfig = "tlsConfig"
    /\ pc = "loop"
    /\ hsLen = 1
    /\ Len(calls) = 6
    /\ CallKind(calls[4]) = "Read"
    /\ CallKind(calls[6]) = "StartupMessage"

\* for every configuration of the model, assignDefaults applied to what a
\* successful assignDefaults left behind returns the same configuration and
\* no error
AssignDefaultsTwice ==
    \A c \in Configs, cur \in UserLookups :
        LET once == assignDefaults(c, cur)
        IN  once.err = NoError =>
                \A again \in UserLookups : assignDefaults(once.cc, again) = once

\* C17: assignDefaults is called once, first of all. When it succeeds, the
\* configuration Connect goes on with has the OS user name for an empty
\* user, 5432 for port 0 and the default dialer for a nil dial function, and
\* is the configuration passed in in everything else; applying
\* assignDefaults to it again changes nothing, whatever the user lookup would
\* return. When the user lookup fails, Connect returns that error, with the
\* configuration untouched and nothing dialed.
C17_AssignDefaults ==
    /\ Len(SelectSeq(calls, IsAssignDefaults)) = IF pc = "assignDefaults" THEN 0 ELSE 1
    /\ calls # <<>> => IsAssignDefaults(calls[1])
    /\ (calls # <<>> /\ calls[1].err = NoError) =>
        /\ cc.User = IF arg.User = StrEmpty THEN OsUserName ELSE arg.User
        /\ cc.Port = IF arg.Port = 0 THEN 5432 ELSE arg.Port
        /\ cc.Dial = IF arg.Dial = "nil" THEN "defaultDialer.Dial" ELSE arg.Dial
        /\ cc = [arg EXCEPT !.User = cc.User, !.Port = cc.Port, !.Dial = cc.Dial]
        /\ pgConn.Config = cc
        /\ \A cur \in UserLookups : assignDefaults(cc, cur) = [cc |-> cc, err |-> NoError]
    /\ (calls # <<>> /\ calls[1].err # NoError) =>
        /\ arg.User = StrEmpty
        /\ pc = "returned"
        /\ exit = "assignDefaults"
        /\ result = [handle |-> "nil", err |-> calls[1].err]
        /\ cc = arg
        /\ Len(calls) = 1
    /\ AssignDefaultsTwice

\* Connect was called with no user, port 0 and no dial function, and has
\* dialed with the defaults in place
C17_Witness ==
    /\ arg.User = StrEmpty /\ arg.Port = 0 /\ arg.Dial = "nil"
    /\ Len(dialCalls) = 1
    /\ cc.User = StrOs /\ cc.Port = 5432 /\ cc.Dial = "defaultDialer.Dial"

\* C18: with a TLS policy configured, the only write to the plain stream is
\* the negotiation request, the two 32-bit numbers 8 and 80877103, as the
\* first write; the startup message and every password response are
\* written to the TLS-wrapped stream, and the codec is built on it.
C18_PlainStreamWrites ==
    arg.TLSConfig # "nil" =>
        /\ \A i \in 1..Len(written) :
            /\ written[i].stream = "plain" =>
                /\ i = 1
                /\ written[i].frame = [type |-> "SSLRequest", words |-> <<8, 80877103>>]
            /\ written[i].frame.type \in {"StartupMessage", "PasswordMessage"} =>
                /\ written[i].stream = "tls"
                /\ response = <<ByteS>>
            /\ written[i].stream \in {"plain", "tls"}
        /\ \A i \in 1..Len(calls) :
            calls[i].op = "NewFrontend" => calls[i].what = "tls"

\* with a TLS policy, the negotiation request, the startup message and a
\* password response have been written: the first to the plain stream, the
\* others to the TLS-wrapped one
C18_Witness ==
    /\ arg.TLSConfig = "tlsConfig"
    /\ Len(written) = 3
    /\ written[1].stream = "plain" /\ written[1].frame.type = "SSLRequest"
    /\ written[2].stream = "tls" /\ written[2].frame.type = "StartupMessage"
    /\ written[3].stream = "tls" /\ written[3].frame.type = "PasswordMessage"
    /\ written[3].frame.Password = StrPw

\* C20: Close is never called on the stream: once the dial has succeeded
\* the session object holds the stream, plain or TLS-wrapped, still open,
\* on every path; and when Connect fails it returns no handle, so the
\* caller is given no reference to the open stream.
C20_StreamLeftOpen ==
    /\ netConnClosed = FALSE
    /\ \A i \in 1..Len(calls) :
        calls[i].op \in {"assignDefaults", "Dial", "Write", "Read", "NewFrontend"}
    /\ (Len(dialCalls) = 1 /\ dialCalls[1].err = NoError) =>
        /\ pgConn.NetConn \in {"plain", "tls"}
        /\ (pc = "returned" /\ exit # "ReadyForQuery") =>
            /\ result.handle = "nil"
            /\ result.err # NoError
    /\ (Len(dialCalls) = 0 \/ (Len(dialCalls) = 1 /\ dialCalls[1].err # NoError)) =>
        pgConn.NetConn = "nil"

\* Connect has failed on an unexpected message with the TLS-wrapped stream
\* open
C20_Witness ==
    /\ pc = "returned"
    /\ exit = "default"
    /\ pgConn.NetConn = "tls"
    /\ netConnClosed = FALSE
    /\ result.handle = "nil"

\* a message that leaves Connect in its loop: backend-key-data,
\* parameter-status, or an authentication request of a known type
KeepsLooping(m) ==
    \/ m.type \in {"BackendKeyData", "ParameterStatus"}
    \/ /\ m.type = "Authentication"
       /\ m.Type \in {AuthTypeOk, AuthTypeCleartextPassword, AuthTypeMD5Password}

\* Connect is in its loop only after messages that keep it there and
\* writes that succeeded, however many
LoopingOnlyAfterSuch ==
    pc = "loop" =>
        /\ \A i \in 1..hsLen : KeepsLooping(hs[i])
        /\ \A i \in 1..Len(written) : written[i].err = NoError

\* Connect has left its loop only on one of the ending events
LoopEndsOnlyOnEvent ==
    (pc = "returned" /\ Len(startupWrites) = 1 /\ startupWrites[1].err = NoError) =>
        \/ exit = "ReceiveMessage" /\ result.err \in IOErrors
        \/ exit = "rxAuthenticationX" /\ hs[hsLen].type = "Authentication"
        \/ /\ exit \in {"ReadyForQuery", "ErrorResponse", "default"}
           /\ ~KeepsLooping(hs[hsLen])

\* C19: when every call returns, and the codec, after at most MaxMsgs
\* messages, delivers one of the ending events (here a receive failure at
\* the latest), Connect returns; until then it stays in its loop through
\* any number of messages that are none of those events, and it leaves the
\* loop on such an event only.
C19_EventuallyReturns ==
    /\ <>(pc = "returned")
    /\ (pc = "loop") ~> (pc = "returned")
    /\ []LoopingOnlyAfterSuch
    /\ []LoopEndsOnlyOnEvent

\* Connect stayed in its loop through MaxMsgs messages and returned when
\* the next receive failed
C19_Witness ==
    /\ pc = "returned"
    /\ exit = "ReceiveMessage"
    /\ hsLen = MaxMsgs
    /\ \A i \in 1..hsLen : KeepsLooping(hs[i])
    /\ hs[1].type = "Authentication" /\ hs[hsLen].type = "Authentication"

====
